---- MODULE Spec2Model ----
(***************************************************************************)
(* The versioned document store of the web notepad: FileManager (one text  *)
(* file with an in-memory version counter), FileManagerPool (the registry) *)
(* and the request handlers of app.py that drive them from the threads of  *)
(* the Flask server (app.run(..., threaded=True)); and the sessions of      *)
(* AuthenticationManager, kept by each server process and in sessions.json.*)
(***************************************************************************)
EXTENDS Integers, Sequences, FiniteSets, TLC

\* ------------------------------------------------------------------ bounds
MaxLen == 2          \* longest text a client submits or a file initially holds
MaxOps == 2          \* longest change list a client submits
NumThreads == 2      \* request-handling threads of the server
MaxRequests == 3     \* requests of one sequential run
MaxPos == 3          \* largest position of a submitted replace operation
MaxDel == 1          \* largest length of a submitted replace operation
NumWorkers == 2      \* server processes, each with its own AuthenticationManager
MaxSessions == 2     \* sessions created in one run
MaxTime == 2         \* last tick of the clock
session_timeout == 1 \* ticks a session may stay idle (self.session_timeout)

\* ------------------------------------------------------------------- texts
\* A text is a sequence of characters. "CR" and "LF" are the carriage return
\* and the line feed, which Path.read_text translates; "a" is any other one.
Chars == {"a", "LF", "CR"}

RECURSIVE SeqsUpTo(_, _)
SeqsUpTo(S, n) ==
    IF n = 0 THEN {<<>>}
    ELSE LET shorter == SeqsUpTo(S, n - 1)
         IN  shorter \cup {Append(s, c) : s \in {x \in shorter : Len(x) = n - 1}, c \in S}

Texts == SeqsUpTo(Chars, MaxLen)

Min(a, b) == IF a <= b THEN a ELSE b
Max(a, b) == IF a >= b THEN a ELSE b

\* Python's s[:i] for 0 <= i (an i past the end is clipped).
Take(s, i) == SubSeq(s, 1, Min(i, Len(s)))

\* A slice s[i:] that keeps the last character when i is past the end.
PySliceFrom_keeps_last(s, i) ==
    IF i > Len(s) THEN SubSeq(s, Max(Len(s), 1), Len(s)) ELSE SubSeq(s, Max(i, 0) + 1, Len(s))

\* Python's s[i:]: a negative i counts from the end, and is clipped at 0.
PySliceFrom(s, i) ==
    LET start == IF i < 0 THEN Max(Len(s) + i, 0) ELSE Min(i, Len(s))
    IN  SubSeq(s, start + 1, Len(s))

\* Python's s[i:j] for 0 <= i and 0 <= j.
PySlice(s, i, j) == SubSeq(s, Min(i, Len(s)) + 1, Min(j, Len(s)))

RECURSIVE Reverse(_)
Reverse(s) == IF s = <<>> THEN <<>> ELSE Append(Reverse(Tail(s)), Head(s))

\* Path.read_text(encoding="utf-8"): text mode with universal newlines, so
\* "\r\n" and a lone "\r" are both read as "\n".
RECURSIVE ReadText(_)
ReadText(data) ==
    IF data = <<>> THEN <<>>
    ELSE IF Head(data) = "CR"
         THEN IF Len(data) >= 2 /\ data[2] = "LF"
              THEN <<"LF">> \o ReadText(SubSeq(data, 3, Len(data)))
              ELSE <<"LF">> \o ReadText(Tail(data))
         ELSE <<Head(data)>> \o ReadText(Tail(data))

\* Path.write_text(content, encoding="utf-8") on Linux: "\n" is written as
\* "\n", every character is written as it is.
WriteText(content) == content

\* hashlib.md5(content.encode()).hexdigest(): the digest of a text, modelled
\* as a value that is equal exactly for equal texts.
Md5(content) == <<"md5", content>>

\* ---------------------------------------------------------- calculate_diff
\* An operation that deletes one character more.
Replace_one_more(position, length, content) ==
    [type |-> "replace", position |-> position, content |-> content, length |-> length + 1]

\* An operation that never deletes.
Replace_zero_length(position, length, content) ==
    [type |-> "replace", position |-> position, content |-> content, length |-> 0]

Replace(position, length, content) ==
    [type |-> "replace", position |-> position, content |-> content, length |-> length]

\* Scans that find no common prefix and no common suffix.
PrefixLen_none(old, new, n) == n
SuffixLen_none(old, new, max_suffix, n) == n

RECURSIVE PrefixLen(_, _, _)
PrefixLen(old, new, n) ==
    IF n < Len(old) /\ n < Len(new) /\ old[n + 1] = new[n + 1]
    THEN PrefixLen(old, new, n + 1)
    ELSE n

RECURSIVE SuffixLen(_, _, _, _)
SuffixLen(old, new, max_suffix, n) ==
    IF n < max_suffix /\ old[Len(old) - n] = new[Len(new) - n]
    THEN SuffixLen(old, new, max_suffix, n + 1)
    ELSE n

\* A diff that always replaces the whole old text.
calculate_diff_whole(old_content, new_content) ==
    <<[type |-> "replace", position |-> 0, content |-> new_content,
       length |-> Len(old_content)]>>

calculate_diff(old_content, new_content) ==
    IF old_content = <<>> /\ new_content # <<>>
    THEN <<Replace(0, 0, new_content)>>
    ELSE IF old_content # <<>> /\ new_content = <<>>
    THEN <<Replace(0, Len(old_content), <<>>)>>
    ELSE LET prefix_len == PrefixLen(old_content, new_content, 0)
             max_suffix == Min(Len(old_content) - prefix_len, Len(new_content) - prefix_len)
             suffix_len == SuffixLen(old_content, new_content, max_suffix, 0)
             old_middle == PySlice(old_content, prefix_len, Len(old_content) - suffix_len)
             new_middle == PySlice(new_content, prefix_len, Len(new_content) - suffix_len)
         IN  IF old_middle # new_middle
             THEN <<Replace(prefix_len, Len(old_middle), new_middle)>>
             ELSE <<>>

\* ----------------------------------------------------------- apply_changes
\* Position checks that forget one of the two bounds.
ValidPosition_no_upper(position, content) == position >= 0
ValidPosition_no_lower(position, content) == position <= Len(content)

\* The position check of one replace operation against the working text.
ValidPosition(position, content) == position >= 0 /\ position <= Len(content)

\* A splice that inserts and deletes nothing.
Splice_insert_only(content, change) ==
    Take(content, change.position) \o change.content
        \o PySliceFrom(content, change.position)

\* The splice of one replace operation.
Splice(content, change) ==
    Take(content, change.position) \o change.content
        \o PySliceFrom(content, change.position + change.length)

\* A loop that visits the list in submission order.
ApplyOrder_forward(changes) == changes

\* The order in which the loop visits the submitted list.
ApplyOrder(changes) == Reverse(changes)

\* The loop over the operations in the order `todo`: the message, the working
\* text, and the operations met so far, each with the length of the working
\* text it met. An operation of another type than "replace" is skipped.
RECURSIVE ApplyLoop(_, _, _)
ApplyLoop(content, todo, seen) ==
    IF todo = <<>> THEN [msg |-> "success", content |-> content, seen |-> seen]
    ELSE LET change == Head(todo)
             met == Append(seen, [change |-> change, worklen |-> Len(content)])
         IN  IF change.type = "replace"
             THEN IF ~ValidPosition(change.position, content)
                  THEN [msg |-> "invalid_position", content |-> content, seen |-> met]
                  ELSE ApplyLoop(Splice(content, change), Tail(todo), met)
             ELSE ApplyLoop(content, Tail(todo), seen)

ApplyAll(content, changes) == ApplyLoop(content, ApplyOrder(changes), <<>>)


\* ------------------------------------------------------------------- state
Keys == {"user1", "user2"}
Threads == 1..NumThreads

None == <<>>                 \* Python's None, for an optional version
Some(v) == <<v>>

VARIABLES
    files,      \* the file of each key: exists, data (the bytes), mtime
    heap,       \* the FileManager objects constructed so far, in order
    managers,   \* FileManagerPool.managers: key -> index into heap, 0 if absent
    th,         \* each thread: the request it serves, its position, its locals
    nreq,       \* requests started so far
    users,          \* each process: the user names in AuthenticationManager.users
    sessions,       \* each process: AuthenticationManager.sessions, id -> session
    session_file,   \* sessions.json, which the processes share: exists, table
    now,            \* the clock, datetime.now()
    made,           \* history: the user of each session created, by id
    voided,         \* history: the ids invalidate_session was called with
    stale,          \* history: the ids that existed when their user's password
                    \* was changed or their user removed
    lapsed          \* history: the ids validate_session found expired

authvars == <<users, sessions, session_file, now, made, voided, stale, lapsed>>

vars == <<files, heap, managers, th, nreq, users, sessions, session_file, now, made,
          voided, stale, lapsed>>

Workers == 1..NumWorkers

\* The processes right after the fork: the default users, no session, no
\* session file yet.
AuthStart ==
    /\ users = [w \in Workers |-> Keys]
    /\ sessions = [w \in Workers |-> <<>>]
    /\ session_file = [exists |-> FALSE, table |-> <<>>]
    /\ now = 0
    /\ made = <<>>
    /\ voided = {} /\ stale = {} /\ lapsed = {}

NoRequest ==
    [kind |-> "none", key |-> "user1", expected |-> None, content |-> <<>>,
     changes |-> <<>>, old_content |-> <<>>, new_content |-> <<>>]

NoResponse ==
    [status |-> 0, msg |-> "", version |-> -1, content |-> <<>>, changes |-> <<>>]

IdleThread ==
    [pc |-> "idle", req |-> NoRequest, fm |-> 0, orig |-> <<>>, work |-> <<>>,
     lv |-> -1, seen |-> <<>>, resp |-> NoResponse, loaded |-> <<>>]

\* A manager that starts at the number of managers constructed before it.
NewManager_counts_on(key) ==
    [key |-> key, version |-> Len(heap), last_modified |-> -1,
     content_hash |-> Md5(<<>>), mutations |-> 0]

\* FileManager.__init__: the object, before ensure_file_exists and load_metadata.
\* mutations is a history field: the update_full_content calls on this
\* object that returned True.
NewManager(key) ==
    [key |-> key, version |-> 0, last_modified |-> -1, content_hash |-> Md5(<<>>),
     mutations |-> 0]

\* FileManager.ensure_file_exists: a missing file is created empty.
EnsureFileExists(f) ==
    IF f.exists THEN f ELSE [exists |-> TRUE, data |-> <<>>, mtime |-> f.mtime + 1]

\* FileManager.get_content: the file read as text.
get_content(f) == ReadText(f.data)

\* A version check that also lets an older expected version pass.
validate_version_stale(fm, expected_version) == fm.version >= expected_version

\* FileManager.validate_version.
validate_version(fm, expected_version) == fm.version = expected_version

\* The guard of update_content and of apply_changes: a version was sent and
\* it is not the manager's.
VersionRejected(fm, expected) ==
    expected # None /\ ~validate_version(fm, expected[1])

\* open(path, "w"): the file is truncated.
Truncated(f) == [exists |-> TRUE, data |-> <<>>, mtime |-> f.mtime + 1]

\* The write of the buffered data at offset 0 of the writer's own descriptor:
\* what another writer has put behind it in the meantime stays.
Written(f, data) ==
    [exists |-> TRUE, data |-> data \o SubSeq(f.data, Len(data) + 1, Len(f.data)),
     mtime |-> f.mtime + 1]

Me(t) == heap[th[t].fm]
File(t) == files[th[t].req.key]

SetTh(t, r) == th' = [th EXCEPT ![t] = r] /\ UNCHANGED authvars
SetManager(t, m) == heap' = [heap EXCEPT ![th[t].fm] = m]
\* Every user's Document stored in one file.
SetFile_shared(t, f) == files' = [k \in Keys |-> f]
SetFile(t, f) == files' = [files EXCEPT ![th[t].req.key] = f]

\* --------------------------------------------------------------- requests
\* A request enters: POST /api/content ("post"), GET /api/content ("get"),
\* POST /api/calculate_diff ("diff"); every handler first asks the pool for
\* the user's manager.
StartRequest(t, req) ==
    /\ th' = [th EXCEPT ![t] =
                [IdleThread EXCEPT !.pc = "get_manager", !.req = req,
                                   !.work = IF req.kind = "replace" THEN req.content
                                            ELSE <<>>]]
    /\ UNCHANGED authvars
    /\ nreq' = nreq + 1
    /\ UNCHANGED <<files, heap, managers>>

\* FileManagerPool.get_manager, with FileManager.__init__ for a new key.
GetManager(t) ==
    /\ th[t].pc = "get_manager"
    /\ LET key == th[t].req.key
           f == EnsureFileExists(files[key])
           m == [NewManager(key) EXCEPT !.last_modified = f.mtime,
                                        !.content_hash = Md5(get_content(f))]
           next == CASE th[t].req.kind = "post" -> "check_version"
                     [] th[t].req.kind = "get" -> "get_read_content"
                     [] th[t].req.kind = "diff" -> "diff"
                     [] th[t].req.kind = "apply" -> "ac_validate"
                     [] th[t].req.kind = "replace" -> "write_open"
       IN  IF managers[key] = 0
           THEN /\ files' = [files EXCEPT ![key] = f]
                /\ heap' = Append(heap, m)
                /\ managers' = [managers EXCEPT ![key] = Len(heap) + 1]
                /\ SetTh(t, [th[t] EXCEPT !.fm = Len(heap) + 1, !.pc = next])
           ELSE /\ SetTh(t, [th[t] EXCEPT !.fm = managers[key], !.pc = next])
                /\ UNCHANGED <<files, heap, managers>>
    /\ UNCHANGED nreq

\* update_content, the version check before anything is written.
CheckVersion(t) ==
    /\ th[t].pc = "check_version"
    /\ SetTh(t, [th[t] EXCEPT !.pc =
            IF VersionRejected(Me(t), th[t].req.expected) THEN "conflict_version"
            ELSE IF th[t].req.changes # <<>> THEN "ac_validate"
            ELSE "write_open",
          !.work = th[t].req.content])
    /\ UNCHANGED <<files, heap, managers, nreq>>

\* update_content, the 409 response: current_version, then current_content.
ConflictVersion(t) ==
    /\ th[t].pc = "conflict_version"
    /\ SetTh(t, [th[t] EXCEPT !.pc = "conflict_content",
                              !.resp.version = Me(t).version])
    /\ UNCHANGED <<files, heap, managers, nreq>>

ConflictContent(t) ==
    /\ th[t].pc = "conflict_content"
    /\ SetTh(t, [th[t] EXCEPT !.pc = "done",
                              !.resp.status = 409,
                              !.resp.msg = "version_mismatch",
                              !.resp.content = get_content(File(t))])
    /\ UNCHANGED <<files, heap, managers, nreq>>

\* apply_changes, the version check.
ApplyValidate(t) ==
    /\ th[t].pc = "ac_validate"
    /\ IF VersionRejected(Me(t), th[t].req.expected)
       THEN IF th[t].req.kind = "post"
            THEN SetTh(t, [th[t] EXCEPT !.pc = "conflict_version"])
            ELSE SetTh(t, [th[t] EXCEPT !.pc = "done", !.resp.msg = "version_mismatch",
                                        !.resp.version = Me(t).version])
       ELSE SetTh(t, [th[t] EXCEPT !.pc = "ac_read"])
    /\ UNCHANGED <<files, heap, managers, nreq>>

\* apply_changes, the read of the current content and the loop over the
\* operations, which works on the thread's own copy. orig and seen are
\* history: the content read, and the operations the loop met.
ApplyRead(t) ==
    /\ th[t].pc = "ac_read"
    /\ LET content == get_content(File(t))
           r == ApplyAll(content, th[t].req.changes)
       IN  IF r.msg = "success"
           THEN SetTh(t, [th[t] EXCEPT !.pc = "write_open", !.work = r.content,
                                       !.orig = content, !.seen = r.seen])
           ELSE SetTh(t, [th[t] EXCEPT !.pc = "done", !.seen = r.seen,
                                       !.orig = content,
                                       !.resp.msg = r.msg,
                                       !.resp.status = IF th[t].req.kind = "post" THEN 500 ELSE 0])
    /\ UNCHANGED <<files, heap, managers, nreq>>

\* update_full_content, write_text: the file is opened for writing ...
WriteOpen(t) ==
    /\ th[t].pc = "write_open"
    /\ SetFile(t, Truncated(File(t)))
    /\ SetTh(t, [th[t] EXCEPT !.pc = "write_data"])
    /\ UNCHANGED <<heap, managers, nreq>>

\* ... and the content written and the file closed.
WriteData(t) ==
    /\ th[t].pc = "write_data"
    /\ SetFile(t, Written(File(t), WriteText(th[t].work)))
    /\ SetTh(t, [th[t] EXCEPT !.pc = "load_stat"])
    /\ UNCHANGED <<heap, managers, nreq>>

\* load_metadata: the modification time ...
LoadStat(t) ==
    /\ th[t].pc = "load_stat"
    /\ SetManager(t, [Me(t) EXCEPT !.last_modified = File(t).mtime])
    /\ SetTh(t, [th[t] EXCEPT !.pc = "load_read"])
    /\ UNCHANGED <<files, managers, nreq>>

\* ... and the hash of the content read back.
LoadRead(t) ==
    /\ th[t].pc = "load_read"
    /\ SetManager(t, [Me(t) EXCEPT !.content_hash = Md5(get_content(File(t)))])
    /\ SetTh(t, [th[t] EXCEPT !.pc = "inc_read"])
    /\ UNCHANGED <<files, managers, nreq>>

\* increment_version, self.version += 1: the attribute is loaded ...
IncRead(t) ==
    /\ th[t].pc = "inc_read"
    /\ SetTh(t, [th[t] EXCEPT !.pc = "inc_write", !.lv = Me(t).version])
    /\ UNCHANGED <<files, heap, managers, nreq>>

\* An increment that leaves the version as it is.
Incremented_never(v) == v

\* An increment that counts a mutation twice.
Incremented_twice(v) == v + 2

\* The value increment_version stores.
Incremented(v) == v + 1

\* ... and stored, one higher; update_full_content returns True.
IncWrite(t) ==
    /\ th[t].pc = "inc_write"
    /\ SetManager(t, [Me(t) EXCEPT !.version = Incremented(th[t].lv),
                                   !.mutations = @ + 1])
    /\ SetTh(t, [th[t] EXCEPT !.pc = "respond"])
    /\ UNCHANGED <<files, managers, nreq>>

\* The answer to a successful update: update_content's 200 with get_version(),
\* apply_changes' (True, "success"), update_full_content's True.
Respond(t) ==
    /\ th[t].pc = "respond"
    /\ SetTh(t, [th[t] EXCEPT !.pc = "done",
                              !.resp.msg = "success",
                              !.resp.status = IF th[t].req.kind = "post" THEN 200 ELSE 0,
                              !.resp.version = Me(t).version])
    /\ UNCHANGED <<files, heap, managers, nreq>>

\* GET /api/content: get_content(), then get_version().
GetReadContent(t) ==
    /\ th[t].pc = "get_read_content"
    /\ SetTh(t, [th[t] EXCEPT !.pc = "get_read_version",
                              !.resp.content = get_content(File(t))])
    /\ UNCHANGED <<files, heap, managers, nreq>>

GetReadVersion(t) ==
    /\ th[t].pc = "get_read_version"
    /\ SetTh(t, [th[t] EXCEPT !.pc = "done", !.resp.status = 200,
                              !.resp.msg = "success",
                              !.resp.version = Me(t).version])
    /\ UNCHANGED <<files, heap, managers, nreq>>

\* POST /api/calculate_diff.
Diff(t) ==
    /\ th[t].pc = "diff"
    /\ SetTh(t, [th[t] EXCEPT !.pc = "done", !.resp.status = 200,
                              !.resp.msg = "success",
                              !.resp.changes =
                                  calculate_diff(th[t].req.old_content, th[t].req.new_content)])
    /\ UNCHANGED <<files, heap, managers, nreq>>

\* The steps of update_content around its calls of the manager.
PostStep(t) == CheckVersion(t) \/ ConflictVersion(t) \/ ConflictContent(t)

\* The steps of apply_changes before it writes.
ApplyStep(t) == ApplyValidate(t) \/ ApplyRead(t)

\* The steps of update_full_content and of the answer to it.
WriteStep(t) ==
    \/ WriteOpen(t)
    \/ WriteData(t)
    \/ LoadStat(t)
    \/ LoadRead(t)
    \/ IncRead(t)
    \/ IncWrite(t)
    \/ Respond(t)

\* The steps of an update through POST /api/content.
UpdateStep(t) == GetManager(t) \/ PostStep(t) \/ ApplyStep(t) \/ WriteStep(t)

\* The steps of GET /api/content.
ReadStep(t) == GetReadContent(t) \/ GetReadVersion(t)

\* ---------------------------------------------------------- specifications
Request(kind, key, expected, content, changes) ==
    [NoRequest EXCEPT !.kind = kind, !.key = key, !.expected = expected,
                      !.content = content, !.changes = changes]

MissingFile == [exists |-> FALSE, data |-> <<>>, mtime |-> 0]
StoredFile(data) == [exists |-> TRUE, data |-> data, mtime |-> 0]

\* The server right after start: no manager yet, every thread idle.
InitWith(fs) ==
    /\ files = fs
    /\ heap = <<>>
    /\ managers = [k \in Keys |-> 0]
    /\ th = [t \in Threads |-> IdleThread]
    /\ nreq = 0
    /\ AuthStart

\* The threaded server: each request that arrives is handed to a thread of
\* its own, and the threads run in any interleaving of their steps.
Arrives(t) == th[t].pc = "idle" /\ nreq = t - 1

Versions == {None, Some(0)}
FullContents == {<<"a">>, <<"LF", "a">>}
SmallChanges == {<<Replace(0, 0, <<"a">>)>>}

Posts ==
    {Request("post", "user1", e, c, <<>>) : e \in Versions, c \in FullContents}
        \cup {Request("post", "user1", Some(0), <<>>, ch) : ch \in SmallChanges}

StartPost(t) ==
    /\ Arrives(t)
    /\ \E req \in Posts : StartRequest(t, req)

Init == InitWith([k \in Keys |-> MissingFile])

Next == \E t \in Threads : StartPost(t) \/ UpdateStep(t)

Spec == Init /\ [][Next]_vars

\* ------------------------------------------------------------------ claims
Done(t) == th[t].pc = "done"
Accepted(t) == Done(t) /\ th[t].resp.msg = "success"
Conflict(t) == Done(t) /\ th[t].resp.msg = "version_mismatch"
IsUpdate(t) == th[t].req.kind \in {"post", "apply", "replace"}
IsFullReplace(t) ==
    th[t].req.kind = "replace" \/ (th[t].req.kind = "post" /\ th[t].req.changes = <<>>)

\* C1: two updates of one Document that carry the same expected version are
\* never both accepted.
C1_NoLostUpdate ==
    \A t1, t2 \in Threads :
        (/\ t1 # t2
         /\ IsUpdate(t1) /\ IsUpdate(t2)
         /\ th[t1].fm = th[t2].fm
         /\ th[t1].req.expected # None
         /\ th[t1].req.expected = th[t2].req.expected)
        => ~(Accepted(t1) /\ Accepted(t2))

\* C2: when every thread has replaced the full content of the same Document
\* with no version check and all have succeeded, the version is the number of
\* threads and the stored content is the content of one of the calls.
C2_ConcurrentReplaceCounts ==
    (\A t \in Threads : IsFullReplace(t) /\ th[t].req.expected = None /\ Accepted(t)
                        /\ th[t].fm = 1)
    => /\ heap[1].version = NumThreads
       /\ \E t \in Threads : files[heap[1].key].data = WriteText(th[t].req.content)

\* C3: a Document's version is 0 when it is constructed and never negative,
\* a step that completes a successful mutation raises it by exactly 1, and
\* every other step leaves it as it is.
C3_VersionCountsMutations ==
    [][/\ \A i \in DOMAIN heap' : i \notin DOMAIN heap => heap'[i].version = 0
       /\ \A i \in DOMAIN heap :
            /\ heap[i].version >= 0
            /\ IF heap'[i].mutations = heap[i].mutations + 1
               THEN heap'[i].version = heap[i].version + 1
               ELSE heap'[i].version = heap[i].version]_vars

\* C4: an update whose expected version is not the Document's version is
\* answered with a version conflict, and neither the check that rejects it nor
\* the building of the conflict answer changes a file, a manager (version,
\* hash, modification time) or the pool.
C4_RejectedNoMutation ==
    [][\A t \in Threads :
         th'[t] # th[t] =>
           /\ (/\ th[t].pc \in {"check_version", "ac_validate"}
               /\ th[t].req.expected # None
               /\ th[t].req.expected[1] # heap[th[t].fm].version)
              => /\ UNCHANGED <<files, heap, managers>>
                 /\ \/ th'[t].pc = "conflict_version"
                    \/ th'[t].pc = "done" /\ th'[t].resp.msg = "version_mismatch"
           /\ th[t].pc \in {"conflict_version", "conflict_content"}
              => /\ UNCHANGED <<files, heap, managers>>
                 /\ \/ th'[t].pc = "conflict_content"
                    \/ th'[t].pc = "done" /\ th'[t].resp.status = 409]_vars

C4_Witness ==
    \E t \in Threads :
        /\ Conflict(t) /\ th[t].resp.status = 409
        /\ heap[th[t].fm].version = 1
        /\ th[t].req.expected = Some(0)

StartGet(t) ==
    /\ Arrives(t)
    /\ StartRequest(t, Request("get", "user1", None, <<>>, <<>>))

StartDiff(t) ==
    /\ Arrives(t)
    /\ \E c \in FullContents :
          StartRequest(t, [Request("diff", "user1", None, <<>>, <<>>)
                              EXCEPT !.old_content = <<"a">>, !.new_content = c])


\* ----------------------------------------------------------------------
\* One client at a time: every request is served to its end before the next
\* one arrives.
SeqVersions == {None} \cup {Some(v) : v \in 0..MaxRequests}
OutOfRange == <<Replace(MaxPos, 0, <<"a">>)>>

SeqIdle(t) == t = 1 /\ th[t].pc \in {"idle", "done"} /\ nreq < MaxRequests

SeqPost(t) ==
    /\ SeqIdle(t)
    /\ \E e \in SeqVersions, c \in FullContents,
          ch \in {<<>>} \cup SmallChanges \cup {OutOfRange} :
          StartRequest(t, Request("post", "user1", e, IF ch = <<>> THEN c ELSE <<>>, ch))

SeqGet(t) ==
    /\ SeqIdle(t)
    /\ StartRequest(t, Request("get", "user1", None, <<>>, <<>>))

SeqNext == \E t \in Threads : SeqPost(t) \/ SeqGet(t) \/ UpdateStep(t) \/ ReadStep(t)

SeqSpec == Init /\ [][SeqNext]_vars

\* C5: in a sequential run every finished request leaves version equal to the
\* number of successful mutations; an accepted update reports that number; an
\* update that sent a version is rejected with a conflict exactly when that
\* version is not the number of successful mutations before it, and the
\* conflict reports the current version.
C5_SequentialVersions ==
    \A t \in Threads :
        Done(t) =>
            LET m == heap[th[t].fm]
                before == IF Accepted(t) /\ th[t].req.kind = "post"
                          THEN m.mutations - 1 ELSE m.mutations
            IN  /\ m.version = m.mutations
                /\ th[t].req.kind = "post" =>
                     /\ Accepted(t) => th[t].resp.status = 200 /\ th[t].resp.version = m.mutations
                     /\ Conflict(t) <=>
                          (th[t].req.expected # None /\ th[t].req.expected[1] # before)
                     /\ Conflict(t) => th[t].resp.status = 409 /\ th[t].resp.version = m.mutations

\* After two replaces, an update that expects version 1 is rejected and told 2.
C5_Witness ==
    /\ Conflict(1)
    /\ th[1].req.expected = Some(1)
    /\ th[1].resp.version = 2
    /\ heap[1].mutations = 2
    /\ nreq = 3


\* ----------------------------------------------------------------------
\* The example of file_manager.py's __main__: the diff of two texts is
\* computed, the file is set to the old text, and the diff is applied.
ScriptDiff(t) ==
    /\ t = 1 /\ th[t].pc = "idle"
    /\ \E old \in Texts, new \in Texts :
          StartRequest(t, [Request("diff", "user1", None, <<>>, <<>>)
                              EXCEPT !.old_content = old, !.new_content = new])

ScriptReplace(t) ==
    /\ t = 1 /\ Done(t) /\ th[t].req.kind = "diff"
    /\ StartRequest(t, [th[t].req EXCEPT !.kind = "replace",
                                         !.content = th[t].req.old_content,
                                         !.changes = th[t].resp.changes])

ScriptApply(t) ==
    /\ t = 1 /\ Accepted(t) /\ th[t].req.kind = "replace"
    /\ StartRequest(t, [th[t].req EXCEPT !.kind = "apply"])

DiffNext ==
    \E t \in Threads :
        \/ ScriptDiff(t) \/ ScriptReplace(t) \/ ScriptApply(t)
        \/ GetManager(t) \/ Diff(t) \/ ApplyStep(t) \/ WriteStep(t)

DiffSpec == Init /\ [][DiffNext]_vars

\* C6: when calculate_diff(A, B) has been applied with apply_changes to a
\* Document whose content was A, the call has succeeded and the content is B.
C6_RoundTrip ==
    \A t \in Threads :
        (/\ Done(t) /\ th[t].req.kind = "apply"
         /\ th[t].req.changes = calculate_diff(th[t].req.old_content, th[t].req.new_content)
         /\ th[t].orig = th[t].req.old_content)
        => /\ Accepted(t)
           /\ get_content(File(t)) = th[t].req.new_content


\* ----------------------------------------------------------------------
\* apply_changes called once on a stored text with a submitted change list.
Sample == [i \in 1..MaxLen |-> IF i % 2 = 1 THEN "a" ELSE "LF"]
PatchTexts == {SubSeq(Sample, 1, n) : n \in 0..MaxLen}
Inserted == {<<>>, <<"CR">>}
Ops ==
    {Replace(p, l, c) : p \in -1..MaxPos, l \in 0..MaxDel, c \in Inserted}
        \cup {[Replace(0, 0, <<"CR">>) EXCEPT !.type = "insert"]}
ChangeLists == SeqsUpTo(Ops, MaxOps)

PatchInit == \E data \in PatchTexts :
    InitWith([k \in Keys |-> IF k = "user1" THEN StoredFile(data) ELSE MissingFile])

PatchApply(t) ==
    /\ t = 1 /\ th[t].pc = "idle"
    /\ \E ch \in ChangeLists : StartRequest(t, Request("apply", "user1", None, <<>>, ch))

PatchNext == \E t \in Threads : PatchApply(t) \/ GetManager(t) \/ ApplyStep(t) \/ WriteStep(t)

PatchSpec == PatchInit /\ [][PatchNext]_vars

\* What a finished apply_changes call was about.
Applied(t) == Done(t) /\ th[t].req.kind = "apply"
ReplaceOps(changes) == SelectSeq(changes, LAMBDA c : c.type = "replace")
Positions(ops) == [i \in DOMAIN ops |-> ops[i].position]
Ascending(ps) == \A i, j \in DOMAIN ps : i < j => ps[i] <= ps[j]
Descending(ps) == \A i, j \in DOMAIN ps : i < j => ps[i] >= ps[j]
Met(t) == [i \in DOMAIN th[t].seen |-> th[t].seen[i].change]

\* The call left the Document as it found it: nothing written, version 0.
Untouched(t) ==
    /\ File(t).mtime = 0
    /\ get_content(File(t)) = th[t].orig
    /\ Me(t).version = 0 /\ Me(t).mutations = 0

\* C7 as claimed: the operations of every change list are applied in
\* descending order of position, whatever order they were submitted in.
C7_DescendingWhateverOrder ==
    \A t \in Threads : Applied(t) => Descending(Positions(Met(t)))

\* C7 as amended: the operations are applied in the reverse of the order they
\* were submitted in (all of them when the call succeeds, up to the rejected
\* one otherwise), which is descending order of position when they were
\* submitted in ascending order of position.
C7_ReverseOfSubmission ==
    \A t \in Threads :
        Applied(t) =>
            LET ops == ReplaceOps(th[t].req.changes)
            IN  /\ Len(Met(t)) <= Len(ops)
                /\ Met(t) = SubSeq(Reverse(ops), 1, Len(Met(t)))
                /\ Accepted(t) => Len(Met(t)) = Len(ops)
                /\ Ascending(Positions(ops)) => Descending(Positions(Met(t)))

C7_Witness ==
    \E t \in Threads :
        /\ Applied(t) /\ Accepted(t)
        /\ Len(Met(t)) = 2
        /\ Met(t)[1].position > Met(t)[2].position
        /\ th[t].req.changes[1].position < th[t].req.changes[2].position

\* All operations at once, in the coordinates of the original text: each
\* range replaced by its replacement, the text between the ranges kept.
RECURSIVE Simultaneous(_, _, _)
Simultaneous(text, ops, from) ==
    IF ops = <<>> THEN SubSeq(text, from + 1, Len(text))
    ELSE SubSeq(text, from + 1, Head(ops).position) \o Head(ops).content
            \o Simultaneous(text, Tail(ops), Head(ops).position + Head(ops).length)

\* Ascending, non-overlapping ranges inside the text.
Disjoint(text, ops) ==
    /\ \A i \in DOMAIN ops :
          /\ ops[i].position >= 0 /\ ops[i].length >= 0
          /\ ops[i].position + ops[i].length <= Len(text)
    /\ \A i, j \in DOMAIN ops : i < j => ops[i].position + ops[i].length <= ops[j].position

C9_AnyPositionPastCurrentText ==
    \A t \in Threads :
        (Applied(t) /\ \E i \in DOMAIN th[t].req.changes :
                          /\ th[t].req.changes[i].type = "replace"
                          /\ th[t].req.changes[i].position > Len(th[t].orig))
        => th[t].resp.msg = "invalid_position" /\ Untouched(t)

\* C9 as amended: the call fails with an invalid position, version and
\* content unchanged, when a replace operation's position is greater than
\* the length of the working text at the moment the loop reaches it; for the
\* last replace operation of the list, the first one the loop reaches, that
\* is the length of the Document's current text.
C9_PositionPastWorkingText ==
    \A t \in Threads :
        Applied(t) =>
            LET ops == ReplaceOps(th[t].req.changes)
            IN  /\ (\E i \in DOMAIN th[t].seen :
                        th[t].seen[i].change.position > th[t].seen[i].worklen)
                   => th[t].resp.msg = "invalid_position" /\ Untouched(t)
                /\ (ops # <<>> /\ ops[Len(ops)].position > Len(th[t].orig))
                   => th[t].resp.msg = "invalid_position" /\ Untouched(t)

C9_Witness ==
    \E t \in Threads :
        /\ Applied(t)
        /\ th[t].orig = <<"a">>
        /\ th[t].req.changes = <<Replace(2, 0, <<"CR">>)>>
        /\ th[t].resp.msg = "invalid_position"
        /\ Untouched(t)

\* C10: when the loop reaches an operation that is out of bounds for the
\* working text (position < 0 or position > its length), the call is rejected
\* with an invalid position and nothing of the list takes effect, whatever
\* the loop had already applied to its working copy: the file is not
\* written, content and version are as before the call.
C10_PatchAtomicity ==
    \A t \in Threads :
        Applied(t) =>
            /\ (\E i \in DOMAIN th[t].seen :
                    \/ th[t].seen[i].change.position < 0
                    \/ th[t].seen[i].change.position > th[t].seen[i].worklen)
               <=> th[t].resp.msg = "invalid_position"
            /\ th[t].resp.msg = "invalid_position" => Untouched(t) /\ th[t].work = <<>>
            /\ ~Accepted(t) => Untouched(t)

\* The last operation has already lengthened the working copy when the first
\* one is found out of bounds.
C10_Witness ==
    \E t \in Threads :
        /\ Applied(t)
        /\ th[t].resp.msg = "invalid_position"
        /\ Len(th[t].seen) = 2
        /\ th[t].seen[2].worklen > Len(th[t].orig)
        /\ th[t].seen[2].change.position < 0
        /\ Untouched(t)


\* ----------------------------------------------------------------------
\* Storage that can fail while update_full_content writes. write_text raises
\* either when it opens the file (nothing has changed then) or after it has
\* opened and truncated it (no space left, an unencodable character): only a
\* part of the data, possibly nothing, has reached the file. Either way
\* update_full_content catches the exception and returns False.
WriteFailed(t) ==
    [th[t] EXCEPT !.pc = "done", !.resp.msg = "write_failed",
                  !.resp.status = IF th[t].req.kind = "post" THEN 500 ELSE 0]

WriteOpenFails(t) ==
    /\ th[t].pc = "write_open"
    /\ SetTh(t, WriteFailed(t))
    /\ UNCHANGED <<files, heap, managers, nreq>>

WriteDataFails(t) ==
    /\ th[t].pc = "write_data"
    /\ \E n \in 0..Len(th[t].work) :
          /\ n < Len(th[t].work) \/ n = 0
          /\ SetFile(t, [Written(File(t), SubSeq(WriteText(th[t].work), 1, n))
                            EXCEPT !.mtime = File(t).mtime])
    /\ SetTh(t, WriteFailed(t))
    /\ UNCHANGED <<heap, managers, nreq>>

\* One client at a time, who sends with each update the version and the
\* content the Document has when the request arrives (old_content is history).
CurrentVersion(key) == IF managers[key] = 0 THEN 0 ELSE heap[managers[key]].version

FailPost(t) ==
    /\ SeqIdle(t)
    /\ \E c \in FullContents, ch \in {<<>>} \cup SmallChanges :
          StartRequest(t, [Request("post", "user1", Some(CurrentVersion("user1")),
                                   IF ch = <<>> THEN c ELSE <<>>, ch)
                              EXCEPT !.old_content = get_content(files["user1"])])

FailNext ==
    \E t \in Threads :
        \/ FailPost(t) \/ GetManager(t) \/ CheckVersion(t) \/ ApplyStep(t) \/ WriteStep(t)
        \/ WriteOpenFails(t) \/ WriteDataFails(t)

FailSpec == PatchInit /\ [][FailNext]_vars

\* C11: after an update whose write has failed, the Document's content and
\* version are what they were before the attempt.
C11_FailedWriteChangesNothing ==
    \A t \in Threads :
        (Done(t) /\ th[t].resp.msg = "write_failed")
        => /\ get_content(File(t)) = th[t].req.old_content
           /\ Me(t).version = th[t].req.expected[1]


\* ----------------------------------------------------------------------
\* FileManagerPool.get_manager step by step. It takes no lock: the test
\* `file_path not in self.managers`, the construction FileManager(...) (which
\* does file input and output), the store into the dict and the final read
\* `return self.managers[file_path]` are separate steps of the calling thread.
Handler(kind) ==
    CASE kind = "post" -> "check_version"
      [] kind = "get" -> "get_read_content"
      [] kind = "diff" -> "diff"
      [] kind = "apply" -> "ac_validate"
      [] kind = "replace" -> "write_open"

\* A get_manager that constructs a manager whether or not the key is known.
GetManagerCheck_always_new(t) ==
    /\ th[t].pc = "get_manager"
    /\ SetTh(t, [th[t] EXCEPT !.pc = "gm_construct"])
    /\ UNCHANGED <<files, heap, managers, nreq>>

GetManagerCheck(t) ==
    /\ th[t].pc = "get_manager"
    /\ SetTh(t, [th[t] EXCEPT !.pc = IF managers[th[t].req.key] = 0
                                     THEN "gm_construct" ELSE "gm_return"])
    /\ UNCHANGED <<files, heap, managers, nreq>>

\* FileManager(Path(file_path)): the new object is the thread's own until it
\* is stored.
GetManagerConstruct(t) ==
    /\ th[t].pc = "gm_construct"
    /\ LET key == th[t].req.key
           f == EnsureFileExists(files[key])
           m == [NewManager(key) EXCEPT !.last_modified = f.mtime,
                                        !.content_hash = Md5(get_content(f))]
       IN  /\ files' = [files EXCEPT ![key] = f]
           /\ heap' = Append(heap, m)
           /\ SetTh(t, [th[t] EXCEPT !.fm = Len(heap) + 1, !.pc = "gm_store"])
    /\ UNCHANGED <<managers, nreq>>

GetManagerStore(t) ==
    /\ th[t].pc = "gm_store"
    /\ managers' = [managers EXCEPT ![th[t].req.key] = th[t].fm]
    /\ SetTh(t, [th[t] EXCEPT !.pc = "gm_return"])
    /\ UNCHANGED <<files, heap, nreq>>

GetManagerReturn(t) ==
    /\ th[t].pc = "gm_return"
    /\ SetTh(t, [th[t] EXCEPT !.fm = managers[th[t].req.key],
                              !.pc = Handler(th[t].req.kind)])
    /\ UNCHANGED <<files, heap, managers, nreq>>

GetManagerStep(t) ==
    \/ GetManagerCheck(t)
    \/ GetManagerConstruct(t)
    \/ GetManagerStore(t)
    \/ GetManagerReturn(t)

\* Concurrent GET /api/content requests of the users, one thread each.
PoolGet(t) ==
    /\ Arrives(t)
    /\ \E k \in Keys : StartRequest(t, Request("get", k, None, <<>>, <<>>))

PoolNext == \E t \in Threads : PoolGet(t) \/ GetManagerStep(t) \/ ReadStep(t)

PoolSpec == Init /\ [][PoolNext]_vars

\* The handler of thread t has its manager from get_manager.
Holding(t) ==
    th[t].pc \notin {"idle", "get_manager", "gm_construct", "gm_store", "gm_return"}

\* C12: no two FileManager objects are ever constructed for one key, and no
\* handler holds a manager other than the one the pool has for its key.
C12_OneManagerPerKey ==
    /\ \A i, j \in 1..Len(heap) : heap[i].key = heap[j].key => i = j
    /\ \A t \in Threads : Holding(t) => th[t].fm = managers[th[t].req.key]


\* ----------------------------------------------------------------------
\* One writer and concurrent readers of user1's Document. The writer sends
\* one update after the other, each with the version the Document has; the
\* text it sends tells which version the update makes, so that what a reader
\* got can be compared with what the Document held.
Revision(v) ==
    IF v = 0 THEN <<>> ELSE IF v % 2 = 1 THEN <<"a">> ELSE <<"LF", "a">>

WriterPost(t) ==
    /\ t = 1
    /\ th[t].pc \in {"idle", "done"}
    /\ nreq < MaxRequests
    /\ StartRequest(t, Request("post", "user1", Some(CurrentVersion("user1")),
                               Revision(CurrentVersion("user1") + 1), <<>>))

ReaderGet(t) ==
    /\ t > 1
    /\ th[t].pc \in {"idle", "done"}
    /\ nreq < MaxRequests
    /\ StartRequest(t, Request("get", "user1", None, <<>>, <<>>))

ReaderNext ==
    \E t \in Threads :
        \/ WriterPost(t) \/ ReaderGet(t) \/ GetManager(t)
        \/ CheckVersion(t) \/ WriteStep(t) \/ ReadStep(t)

ReaderSpec == Init /\ [][ReaderNext]_vars

\* C13: the content and the version a GET /api/content answers with are a
\* pair the Document held: the content is that of the version returned.
C13_NoTornRead ==
    \A t \in Threads :
        (Done(t) /\ th[t].req.kind = "get")
        => th[t].resp.content = Revision(th[t].resp.version)


\* ----------------------------------------------------------------------
\* One caller after the other, on either key: full replacements without a
\* version and reads, with get_manager taken step by step.

HandleRequest(t) ==
    /\ SeqIdle(t)
    /\ \E k \in Keys :
          \/ \E c \in FullContents : StartRequest(t, Request("post", k, None, c, <<>>))
          \/ StartRequest(t, Request("get", k, None, <<>>, <<>>))

HandleNext ==
    \E t \in Threads :
        \/ HandleRequest(t) \/ GetManagerStep(t) \/ CheckVersion(t)
        \/ WriteStep(t) \/ ReadStep(t)

HandleSpec == Init /\ [][HandleNext]_vars

\* The managers ever constructed for a key, and the successful updates made
\* through any of them.
ManagersOf(key) == {i \in 1..Len(heap) : heap[i].key = key}

RECURSIVE SumMutations(_)
SumMutations(S) ==
    IF S = {} THEN 0
    ELSE LET i == CHOOSE x \in S : TRUE
         IN  heap[i].mutations + SumMutations(S \ {i})

\* C14: called one after the other, get_manager answers every call for a key
\* with the one manager of that key, whatever calls for other keys come in
\* between, and what was changed through an earlier handle is seen through a
\* later one: a read answers with the version all updates of the key made.
C14_SameHandle ==
    \A t \in Threads :
        /\ Holding(t) => /\ th[t].fm = managers[th[t].req.key]
                         /\ ManagersOf(th[t].req.key) = {th[t].fm}
        /\ (Done(t) /\ th[t].req.kind = "get")
           => /\ th[t].resp.version = SumMutations(ManagersOf(th[t].req.key))
              /\ th[t].resp.content = get_content(File(t))

\* A read of user1 that sees an update made before a call for user2.
C14_Witness ==
    /\ Done(1) /\ th[1].req.kind = "get" /\ th[1].req.key = "user1"
    /\ th[1].resp.version = 1
    /\ managers["user2"] > managers["user1"]


\* ----------------------------------------------------------------------
\* calculate_diff, by its answers in DiffSpec: POST /api/calculate_diff for
\* every pair of texts.
Diffed(t) == Done(t) /\ th[t].req.kind = "diff"

\* C15: calculate_diff(A, B) answers with at most one operation, and with
\* none exactly when A = B.
C15_EmptyIffEqual ==
    \A t \in Threads :
        Diffed(t)
        => /\ Len(th[t].resp.changes) <= 1
           /\ th[t].resp.changes = <<>> <=> th[t].req.old_content = th[t].req.new_content

C15_Witness ==
    /\ Diffed(1) /\ th[1].req.old_content = <<"a">> /\ th[1].req.new_content = <<"a">>
    /\ th[1].resp.changes = <<>>

\* The longest common prefix of A and B, and their longest common suffix of at
\* most cap characters.
CommonPrefix(A, B) ==
    CHOOSE p \in 0..Min(Len(A), Len(B)) :
        /\ SubSeq(A, 1, p) = SubSeq(B, 1, p)
        /\ \A q \in (p + 1)..Min(Len(A), Len(B)) : SubSeq(A, 1, q) # SubSeq(B, 1, q)

CommonSuffix(A, B, cap) ==
    CHOOSE s \in 0..cap :
        /\ SubSeq(A, Len(A) - s + 1, Len(A)) = SubSeq(B, Len(B) - s + 1, Len(B))
        /\ \A q \in (s + 1)..cap :
              SubSeq(A, Len(A) - q + 1, Len(A)) # SubSeq(B, Len(B) - q + 1, Len(B))

Letters(n) ==
    CASE n = 1 -> <<"H", "e", "l", "l", "o", " ">>
      [] n = 2 -> <<"B", "e", "a", "u", "t", "i", "f", "u", "l", " ">>
      [] n = 3 -> <<"W", "o", "r", "l", "d">>

\* C16: for A # B, calculate_diff(A, B) is the one operation at position p,
\* of length len(A) - p - s, with replacement B[p : len(B) - s], p the longest
\* common prefix and s the longest common suffix of at most
\* min(len(A) - p, len(B) - p) characters; "Hello World" to
\* "Hello Beautiful World" is position 6, length 0, "Beautiful ".
C16_PrefixSuffixOperation ==
    /\ \A t \in Threads :
          (Diffed(t) /\ th[t].req.old_content # th[t].req.new_content)
          => LET A == th[t].req.old_content
                 B == th[t].req.new_content
                 p == CommonPrefix(A, B)
                 s == CommonSuffix(A, B, Min(Len(A) - p, Len(B) - p))
             IN  th[t].resp.changes =
                    <<[type |-> "replace", position |-> p, length |-> Len(A) - p - s,
                       content |-> SubSeq(B, p + 1, Len(B) - s)]>>
    /\ calculate_diff(Letters(1) \o Letters(3), Letters(1) \o Letters(2) \o Letters(3))
          = <<[type |-> "replace", position |-> 6, length |-> 0, content |-> Letters(2)]>>

\* "aa" to "a": the prefix takes the one common character, the cap leaves the
\* suffix none.
C16_Witness ==
    /\ Diffed(1) /\ th[1].req.old_content = <<"a", "a">> /\ th[1].req.new_content = <<"a">>
    /\ th[1].resp.changes = <<[type |-> "replace", position |-> 1, length |-> 1,
                               content |-> <<>>]>>


\* The single replace operations, within the text A, that turn A into B.
Transforms(A, B) ==
    {op \in [position : 0..Len(A), length : 0..Len(A), content : Texts] :
        /\ op.position + op.length <= Len(A)
        /\ SubSeq(A, 1, op.position) \o op.content
              \o SubSeq(A, op.position + op.length + 1, Len(A)) = B}

\* C17: no single replace operation that turns A into B deletes fewer
\* characters or inserts a shorter replacement than the operation
\* calculate_diff(A, B) answers with.
C17_Minimal ==
    \A t \in Threads :
        (Diffed(t) /\ th[t].resp.changes # <<>>)
        => \A op \in Transforms(th[t].req.old_content, th[t].req.new_content) :
              /\ op.length >= th[t].resp.changes[1].length
              /\ Len(op.content) >= Len(th[t].resp.changes[1].content)

\* "a" to "aa": the insertion can be made at either end, or the whole text
\* replaced.
C17_Witness ==
    /\ Diffed(1) /\ th[1].req.old_content = <<"a">> /\ th[1].req.new_content = <<"a", "a">>
    /\ th[1].resp.changes # <<>>
    /\ th[1].resp.changes[1].length = 0
    /\ \E op \in Transforms(<<"a">>, <<"a", "a">>) : op.length = 1

\* C18: calculate_diff("", B) for a non-empty B is the one operation
\* {position 0, length 0, replacement B}; calculate_diff(A, "") for a
\* non-empty A is the one operation {position 0, length len(A), replacement ""}.
C18_Degenerate ==
    \A t \in Threads :
        Diffed(t)
        => LET A == th[t].req.old_content
               B == th[t].req.new_content
           IN  /\ (A = <<>> /\ B # <<>>)
                  => th[t].resp.changes =
                        <<[type |-> "replace", position |-> 0, length |-> 0, content |-> B]>>
               /\ (A # <<>> /\ B = <<>>)
                  => th[t].resp.changes =
                        <<[type |-> "replace", position |-> 0, length |-> Len(A),
                           content |-> <<>>]>>

C18_Witness ==
    /\ Diffed(1) /\ th[1].req.old_content = <<"a", "LF">> /\ th[1].req.new_content = <<>>
    /\ Len(th[1].resp.changes) = 1
    /\ th[1].resp.changes[1].length = 2


\* ----------------------------------------------------------------------
\* apply_changes with one replace operation whose length may reach past the
\* end of the stored text.
LongOps ==
    {Replace(p, l, c) : p \in 0..MaxPos, l \in 0..(MaxLen + MaxDel), c \in Inserted}

TruncApply(t) ==
    /\ t = 1 /\ th[t].pc = "idle"
    /\ \E op \in LongOps : StartRequest(t, Request("apply", "user1", None, <<>>, <<op>>))

TruncNext == \E t \in Threads : TruncApply(t) \/ GetManager(t) \/ ApplyStep(t) \/ WriteStep(t)

TruncSpec == PatchInit /\ [][TruncNext]_vars

\* C19: a replace operation with 0 <= position <= len(text) and
\* position + length > len(text) is accepted, and the text written is
\* text[0:position] followed by the replacement.
C19_DeletionTruncated ==
    \A t \in Threads :
        (/\ Applied(t) /\ Len(th[t].req.changes) = 1
         /\ th[t].req.changes[1].position <= Len(th[t].orig)
         /\ th[t].req.changes[1].position + th[t].req.changes[1].length > Len(th[t].orig))
        => /\ Accepted(t)
           /\ th[t].work = SubSeq(th[t].orig, 1, th[t].req.changes[1].position)
                              \o th[t].req.changes[1].content
           /\ File(t).data = WriteText(th[t].work)

C19_Witness ==
    /\ Applied(1) /\ Accepted(1)
    /\ th[1].orig = <<"a", "LF">>
    /\ th[1].req.changes = <<Replace(1, 3, <<"CR">>)>>
    /\ File(1).data = <<"a", "CR">>


\* ----------------------------------------------------------------------
\* Two clients, one request each, on either user's Document: a read, a full
\* replacement with or without a version, a patch with a valid or an invalid
\* position; get_manager step by step, and a storage whose writes can fail.
FrameInit ==
    InitWith([k \in Keys |-> StoredFile(IF k = "user1" THEN <<"a">> ELSE <<"LF">>)])

FrameRequests ==
    {Request("get", k, None, <<>>, <<>>) : k \in Keys}
        \cup {Request("post", k, e, c, <<>>) :
                  k \in Keys, e \in {None, Some(1)}, c \in FullContents}
        \cup {Request("post", k, None, <<>>, <<Replace(p, 0, <<"a">>)>>) :
                  k \in Keys, p \in {-1, 0}}

FrameStart(t) ==
    /\ t <= 2 /\ th[t].pc = "idle"
    /\ \E req \in FrameRequests : StartRequest(t, req)

FrameNext ==
    \E t \in Threads :
        \/ FrameStart(t) \/ GetManagerStep(t) \/ PostStep(t) \/ ApplyStep(t)
        \/ WriteStep(t) \/ ReadStep(t) \/ WriteOpenFails(t) \/ WriteDataFails(t)

FrameSpec == FrameInit /\ [][FrameNext]_vars

\* The stored file of a key, the pool's entry for it and every manager
\* constructed for it are the same after the step.
KeyUnchanged(k) ==
    /\ files'[k] = files[k]
    /\ managers'[k] = managers[k]
    /\ \A i \in 1..Len(heap) : heap[i].key = k => (i <= Len(heap') /\ heap'[i] = heap[i])

Quiet == \A t \in Threads : th[t].pc \in {"idle", "done"}

RemoveManager(key) ==
    /\ Quiet
    /\ managers[key] # 0
    /\ managers' = [managers EXCEPT ![key] = 0]
    /\ UNCHANGED <<files, heap, th, nreq>>
    /\ UNCHANGED authvars

Restart ==
    /\ Quiet
    /\ \E k \in Keys : managers[k] # 0
    /\ managers' = [k \in Keys |-> 0]
    /\ th' = [t \in Threads |-> IdleThread]
    /\ UNCHANGED <<files, heap, nreq>>
    /\ UNCHANGED authvars

RestartRequest(t) ==
    /\ SeqIdle(t)
    /\ \/ \E e \in SeqVersions, c \in FullContents :
             StartRequest(t, Request("post", "user1", e, c, <<>>))
       \/ StartRequest(t, Request("get", "user1", None, <<>>, <<>>))

RestartNext ==
    \/ \E t \in Threads :
          \/ RestartRequest(t) \/ GetManager(t) \/ PostStep(t)
          \/ WriteStep(t) \/ ReadStep(t)
    \/ \E k \in Keys : RemoveManager(k)
    \/ Restart

RestartSpec == Init /\ [][RestartNext]_vars

\* C21: a manager constructed for a key starts at version 0 however many
\* updates earlier managers of the key made, and finds the stored content as
\* it was left; its version counts its own updates only, so a read answers
\* with that count and the stored content.
C21_ReinstantiationResetsVersion ==
    /\ [][Len(heap') > Len(heap)
            => LET m == heap'[Len(heap')]
               IN  /\ m.version = 0
                   /\ files[m.key].exists => files'[m.key] = files[m.key]]_vars
    /\ [](\A t \in Threads :
            (Done(t) /\ th[t].req.kind = "get")
            => /\ th[t].resp.version = Me(t).mutations
               /\ th[t].resp.content = get_content(File(t)))

\* A write guarded by version 0 that the second manager of user1 accepts, the
\* first one having reached version 1.
C21_Witness ==
    /\ Accepted(1) /\ th[1].req.expected = Some(0)
    /\ th[1].fm = 2
    /\ heap[1].key = "user1" /\ heap[2].key = "user1"
    /\ heap[1].version = 1


\* ----------------------------------------------------------------------
\* apply_changes and update_full_content called one after the other on one
\* FileManager, each call with the version get_version() gave just before it
\* (for update_full_content, which takes no version, expected is history).
CountedLists ==
    {<<>>,
     <<[Replace(0, 0, <<"CR">>) EXCEPT !.type = "insert"]>>,
     <<Replace(0, 0, <<>>)>>,
     <<Replace(0, 0, <<"a">>)>>,
     <<Replace(0, 1, <<>>), Replace(0, 0, <<"a">>)>>}

CountCall(t) ==
    /\ SeqIdle(t)
    /\ \/ \E ch \in CountedLists :
             StartRequest(t, Request("apply", "user1", Some(CurrentVersion("user1")), <<>>, ch))
       \/ \E c \in FullContents :
             StartRequest(t, Request("replace", "user1", Some(CurrentVersion("user1")), c, <<>>))

CountNext == \E t \in Threads : CountCall(t) \/ GetManager(t) \/ ApplyStep(t) \/ WriteStep(t)

CountSpec == PatchInit /\ [][CountNext]_vars

\* C22: a successful apply_changes leaves the version one above what it was
\* before the call, whatever the number of operations in the list (none, or
\* only operations that change nothing), as a successful update_full_content
\* does.
C22_OneIncrementPerCall ==
    \A t \in Threads :
        (Accepted(t) /\ th[t].req.kind \in {"apply", "replace"})
        => /\ Me(t).version = th[t].req.expected[1] + 1
           /\ th[t].resp.version = th[t].req.expected[1] + 1

\* A second successful call, made with an empty list.
C22_Witness ==
    /\ Accepted(1) /\ th[1].req.kind = "apply" /\ th[1].req.changes = <<>>
    /\ th[1].req.expected = Some(1) /\ Me(1).version = 2
    /\ File(1).mtime > 2


\* ----------------------------------------------------------------------
\* The pool called with path strings. A registry key is the string as it was
\* given, here the sequence of its components; the FileManager keeps
\* Path(file_path), in which pathlib has dropped every "." component.
PathKeys == {<<"user1">>, <<"user2">>, <<".", "user1">>}

Resolve(file_path) ==
    LET parts == SelectSeq(file_path, LAMBDA x : x # ".")
    IN  parts[Len(parts)]

PathInit ==
    /\ files = [k \in Keys |-> MissingFile]
    /\ heap = <<>>
    /\ managers = [k \in PathKeys |-> 0]
    /\ th = [t \in Threads |-> IdleThread]
    /\ nreq = 0
    /\ AuthStart

\* pool.get_manager(file_path).update_full_content(c), up to the call of
\* update_full_content.
PathCall(t) ==
    /\ SeqIdle(t)
    /\ \E file_path \in PathKeys, c \in FullContents :
          LET key == Resolve(file_path)
              f == EnsureFileExists(files[key])
              m == [NewManager(key) EXCEPT !.last_modified = f.mtime,
                                           !.content_hash = Md5(get_content(f))]
              known == managers[file_path] # 0
              fm == IF known THEN managers[file_path] ELSE Len(heap) + 1
          IN  /\ files' = IF known THEN files ELSE [files EXCEPT ![key] = f]
              /\ heap' = IF known THEN heap ELSE Append(heap, m)
              /\ managers' = [managers EXCEPT ![file_path] = fm]
              /\ th' = [th EXCEPT ![t] =
                          [IdleThread EXCEPT !.pc = "write_open", !.fm = fm, !.work = c,
                                             !.req = Request("replace", key, None, c, <<>>)]]
              /\ nreq' = nreq + 1
              /\ UNCHANGED authvars

PathNext == \E t \in Threads : PathCall(t) \/ WriteStep(t)

PathSpec == PathInit /\ [][PathNext]_vars

\* C23: the managers of two distinct registry keys never have the same
\* resolved file path.
C23_ExclusiveStorage ==
    \A k1, k2 \in DOMAIN managers :
        (k1 # k2 /\ managers[k1] # 0 /\ managers[k2] # 0)
        => heap[managers[k1]].key # heap[managers[k2]].key


\* ----------------------------------------------------------------------
\* Storage whose reads can fail (bytes that are not UTF-8, an input/output
\* error). FileManager.get_content catches the exception and returns "".
ApplyReadFails(t) ==
    /\ th[t].pc = "ac_read"
    /\ LET content == <<>>
           r == ApplyAll(content, th[t].req.changes)
       IN  IF r.msg = "success"
           THEN SetTh(t, [th[t] EXCEPT !.pc = "write_open", !.work = r.content,
                                       !.orig = content, !.seen = r.seen])
           ELSE SetTh(t, [th[t] EXCEPT !.pc = "done", !.seen = r.seen,
                                       !.orig = content,
                                       !.resp.msg = r.msg,
                                       !.resp.status = IF th[t].req.kind = "post" THEN 500 ELSE 0])
    /\ UNCHANGED <<files, heap, managers, nreq>>

GetReadContentFails(t) ==
    /\ th[t].pc = "get_read_content"
    /\ SetTh(t, [th[t] EXCEPT !.pc = "get_read_version", !.resp.content = <<>>])
    /\ UNCHANGED <<files, heap, managers, nreq>>

\* One caller at a time: apply_changes with the current version, and reads;
\* old_content is history, the stored content when the call is made.
ReadFailCall(t) ==
    /\ SeqIdle(t)
    /\ \E kind \in {"apply", "get"}, ch \in SmallChanges \cup {OutOfRange} :
          StartRequest(t, [Request(kind, "user1",
                                   IF kind = "apply" THEN Some(CurrentVersion("user1")) ELSE None,
                                   <<>>, IF kind = "apply" THEN ch ELSE <<>>)
                              EXCEPT !.old_content = get_content(files["user1"])])

ReadFailNext ==
    \E t \in Threads :
        \/ ReadFailCall(t) \/ GetManager(t) \/ ApplyStep(t) \/ WriteStep(t) \/ ReadStep(t)
        \/ ApplyReadFails(t) \/ GetReadContentFails(t)

ReadFailSpec == PatchInit /\ [][ReadFailNext]_vars

\* C24: a call that reports success has worked on the stored content: an
\* apply_changes that succeeds has applied its list to the text that was
\* stored and a read that succeeds answers with it; when the read of the
\* stored content fails, the caller gets a failure and content and version
\* stay as they were.
C24_ReadErrorReported ==
    \A t \in Threads :
        /\ (Accepted(t) /\ th[t].req.kind = "apply") => th[t].orig = th[t].req.old_content
        /\ (Accepted(t) /\ th[t].req.kind = "get")
           => th[t].resp.content = th[t].req.old_content


\* ----------------------------------------------------------------------
\* load_metadata's hash line step by step: read_text returns the content
\* (loaded, the thread's own), then the digest is computed and stored in
\* self.content_hash. Nothing keeps another thread from writing in between.
LoadReadText(t) ==
    /\ th[t].pc = "load_read"
    /\ SetTh(t, [th[t] EXCEPT !.pc = "load_hash", !.loaded = get_content(File(t))])
    /\ UNCHANGED <<files, heap, managers, nreq>>

LoadStoreHash(t) ==
    /\ th[t].pc = "load_hash"
    /\ SetManager(t, [Me(t) EXCEPT !.content_hash = Md5(th[t].loaded)])
    /\ SetTh(t, [th[t] EXCEPT !.pc = "inc_read"])
    /\ UNCHANGED <<files, managers, nreq>>

\* Concurrent full replacements of user1's Document, one thread each.
HashPost(t) ==
    /\ Arrives(t)
    /\ \E c \in FullContents : StartRequest(t, Request("post", "user1", None, c, <<>>))

HashNext ==
    \E t \in Threads :
        \/ HashPost(t) \/ GetManager(t) \/ CheckVersion(t)
        \/ WriteOpen(t) \/ WriteData(t) \/ LoadStat(t)
        \/ LoadReadText(t) \/ LoadStoreHash(t)
        \/ IncRead(t) \/ IncWrite(t) \/ Respond(t)

HashSpec == Init /\ [][HashNext]_vars

\* C25: when no request is in progress, the content_hash of every manager in
\* the pool is the digest of the stored content of its file.
C25_HashOfStoredContent ==
    Quiet
    => \A k \in Keys :
          managers[k] # 0
          => heap[managers[k]].content_hash = Md5(get_content(files[k]))


\* ----------------------------------------------------------------------
\* FileManager.__init__ step by step, inside the unlocked get_manager:
\* ensure_file_exists tests file_path.exists(), then, for a missing file,
\* write_text("") creates it (opening it truncates); load_metadata completes
\* the object.
ConstructExists(t) ==
    /\ th[t].pc = "gm_construct"
    /\ SetTh(t, [th[t] EXCEPT !.pc = IF File(t).exists THEN "gm_load" ELSE "gm_create"])
    /\ UNCHANGED <<files, heap, managers, nreq>>

ConstructCreate(t) ==
    /\ th[t].pc = "gm_create"
    /\ SetFile(t, Truncated(File(t)))
    /\ SetTh(t, [th[t] EXCEPT !.pc = "gm_load"])
    /\ UNCHANGED <<heap, managers, nreq>>

ConstructLoad(t) ==
    /\ th[t].pc = "gm_load"
    /\ heap' = Append(heap, [NewManager(th[t].req.key)
                                EXCEPT !.last_modified = File(t).mtime,
                                       !.content_hash = Md5(get_content(File(t)))])
    /\ SetTh(t, [th[t] EXCEPT !.fm = Len(heap) + 1, !.pc = "gm_store"])
    /\ UNCHANGED <<files, managers, nreq>>

Constructing(t) == th[t].pc \in {"gm_construct", "gm_create", "gm_load"}

ConstructNext ==
    \E t \in Threads :
        \/ HashPost(t)
        \/ GetManagerCheck(t) \/ ConstructExists(t) \/ ConstructCreate(t) \/ ConstructLoad(t)
        \/ GetManagerStore(t) \/ GetManagerReturn(t)
        \/ CheckVersion(t) \/ WriteStep(t)

ConstructSpec == Init /\ [][ConstructNext]_vars

\* C26: no step of the construction of a manager changes the content of a
\* stored file that exists, or the version of a manager that exists; a
\* manager is constructed at version 0, over empty content when the file was
\* missing.
C26_ConstructionChangesNothing ==
    [][\A t \in Threads :
          (Constructing(t) /\ th'[t] # th[t])
          => /\ File(t).exists => files'[th[t].req.key].data = File(t).data
             /\ \A i \in 1..Len(heap) : heap'[i] = heap[i]
             /\ Len(heap') > Len(heap) => heap'[Len(heap')].version = 0]_vars


\* ----------------------------------------------------------------------
\* C27: every operation calculate_diff(A, B) answers with lies within A
\* (0 <= position, 0 <= length, position + length <= len(A)), and
\* apply_changes given that answer on a Document whose content is A accepts
\* it.
C27_DiffWithinOld ==
    \A t \in Threads :
        /\ Diffed(t)
           => \A i \in DOMAIN th[t].resp.changes :
                 LET op == th[t].resp.changes[i]
                 IN  /\ op.position >= 0 /\ op.length >= 0
                     /\ op.position + op.length <= Len(th[t].req.old_content)
        /\ (/\ Applied(t)
            /\ th[t].req.changes = calculate_diff(th[t].req.old_content, th[t].req.new_content)
            /\ th[t].orig = th[t].req.old_content)
           => /\ Accepted(t)
              /\ \A i \in DOMAIN th[t].req.changes :
                    th[t].req.changes[i].position + th[t].req.changes[i].length
                        <= Len(th[t].orig)

\* "aa" to "a": the operation ends exactly at the end of the old text.
C27_Witness ==
    /\ Applied(1) /\ Accepted(1)
    /\ th[1].orig = <<"a", "a">> /\ th[1].req.old_content = <<"a", "a">>
    /\ th[1].req.new_content = <<"a">>
    /\ th[1].req.changes = <<Replace(1, 1, <<>>)>>


\* ----------------------------------------------------------------------
\* AuthenticationManager. gunicorn_conf.py runs several sync worker processes
\* with preload_app: each process has its own copy of auth_manager (users,
\* sessions) and all of them read and write the one session file. A session
\* table is a function from session ids to sessions, as the dict is.
storevars == <<files, heap, managers, th, nreq>>

Session(username, t) == [username |-> username, last_activity |-> t]
Without(table, ids) == [x \in DOMAIN table \ ids |-> table[x]]
With(table, id, data) ==
    [x \in DOMAIN table \cup {id} |-> IF x = id THEN data ELSE table[x]]

\* datetime.now() - last_activity > timedelta(seconds=self.session_timeout)
Expired(data) == now - data.last_activity > session_timeout

\* save_sessions: the file holds the process's table.
Saved(table) == [exists |-> TRUE, table |-> table]

\* cleanup_expired_sessions, as load_sessions calls it: the table without the
\* expired sessions, saved if there were any.
cleanup_expired_sessions(table, file) ==
    LET expired_sessions == {x \in DOMAIN table : Expired(table[x])}
    IN  [sessions |-> Without(table, expired_sessions),
         file |-> IF expired_sessions # {} THEN Saved(Without(table, expired_sessions))
                  ELSE file]

\* load_sessions: the table is replaced by the file's, when there is a file.
load_sessions(table, file) ==
    IF file.exists THEN cleanup_expired_sessions(file.table, file)
    ELSE [sessions |-> table, file |-> file]

\* validate_session on a process's table: the table and the file after the
\* call, whether it returned the session (ok) and whether it found it expired.
validate_session(table, file, session_id) ==
    IF session_id \notin DOMAIN table
    THEN [sessions |-> table, file |-> file, ok |-> FALSE, expired |-> FALSE]
    ELSE IF Expired(table[session_id])
    THEN [sessions |-> Without(table, {session_id}),
          file |-> Saved(Without(table, {session_id})), ok |-> FALSE, expired |-> TRUE]
    ELSE LET refreshed == [table EXCEPT ![session_id].last_activity = now]
         IN  [sessions |-> refreshed, file |-> Saved(refreshed), ok |-> TRUE,
              expired |-> FALSE]

\* require_auth: validate; if that fails, reload the sessions from the file and
\* validate again.
require_auth(table, file, session_id) ==
    LET first == validate_session(table, file, session_id)
        loaded == load_sessions(first.sessions, first.file)
        second == validate_session(loaded.sessions, loaded.file, session_id)
    IN  IF first.ok THEN first
        ELSE [second EXCEPT !.expired = first.expired \/ second.expired]


SessionIds == 1..Len(made)

\* POST /api/login with the right password, served by process w:
\* verify_password, then create_session with a fresh id, which saves.
Login(w, username) ==
    /\ username \in users[w]
    /\ Len(made) < MaxSessions
    /\ LET table == With(sessions[w], Len(made) + 1, Session(username, now))
       IN  /\ sessions' = [sessions EXCEPT ![w] = table]
           /\ session_file' = Saved(table)
    /\ made' = Append(made, username)
    /\ UNCHANGED <<users, now, voided, stale, lapsed>>
    /\ UNCHANGED storevars

\* A request that carries session_id to a handler under require_auth, served
\* by process w.
Authenticate(w, session_id) ==
    /\ LET r == require_auth(sessions[w], session_file, session_id)
       IN  /\ sessions' = [sessions EXCEPT ![w] = r.sessions]
           /\ session_file' = r.file
           /\ lapsed' = IF r.expired THEN lapsed \cup {session_id} ELSE lapsed
    /\ UNCHANGED <<users, now, made, voided, stale>>
    /\ UNCHANGED storevars

\* POST /api/logout served by process w: invalidate_session, which deletes
\* and saves when the process knows the id and does nothing otherwise.
Logout(w, session_id) ==
    /\ IF session_id \in DOMAIN sessions[w]
       THEN /\ sessions' = [sessions EXCEPT ![w] = Without(@, {session_id})]
            /\ session_file' = Saved(Without(sessions[w], {session_id}))
       ELSE UNCHANGED <<sessions, session_file>>
    /\ voided' = voided \cup {session_id}
    /\ UNCHANGED <<users, now, made, stale, lapsed>>
    /\ UNCHANGED storevars

\* The sessions of a user in a process's table.
SessionsOf(table, username) == {x \in DOMAIN table : table[x].username = username}

\* change_password with the right old password, in process w: the user's
\* sessions are deleted from the table; save_sessions is not called.
ChangePassword(w, username) ==
    /\ username \in users[w]
    /\ sessions' = [sessions EXCEPT ![w] = Without(@, SessionsOf(@, username))]
    /\ stale' = stale \cup {x \in SessionIds : made[x] = username}
    /\ UNCHANGED <<users, session_file, now, made, voided, lapsed>>
    /\ UNCHANGED storevars

\* remove_user in process w, likewise.
RemoveUser(w, username) ==
    /\ username \in users[w]
    /\ users' = [users EXCEPT ![w] = @ \ {username}]
    /\ sessions' = [sessions EXCEPT ![w] = Without(@, SessionsOf(@, username))]
    /\ stale' = stale \cup {x \in SessionIds : made[x] = username}
    /\ UNCHANGED <<session_file, now, made, voided, lapsed>>
    /\ UNCHANGED storevars

Tick ==
    /\ now < MaxTime
    /\ now' = now + 1
    /\ UNCHANGED <<users, sessions, session_file, made, voided, stale, lapsed>>
    /\ UNCHANGED storevars

\* Logins, requests and password changes or removals of users.
PasswordNext ==
    \/ \E w \in Workers, u \in Keys : Login(w, u) \/ ChangePassword(w, u) \/ RemoveUser(w, u)
    \/ \E w \in Workers, x \in SessionIds : Authenticate(w, x)

PasswordSpec == Init /\ [][PasswordNext]_vars

\* Logins, requests and logouts.
LogoutNext ==
    \/ \E w \in Workers, u \in Keys : Login(w, u)
    \/ \E w \in Workers, x \in SessionIds : Authenticate(w, x) \/ Logout(w, x)
    \/ Tick

LogoutSpec == Init /\ [][LogoutNext]_vars

\* Logins and requests while time passes.
ExpiryNext ==
    \/ \E w \in Workers, u \in Keys : Login(w, u)
    \/ \E w \in Workers, x \in SessionIds : Authenticate(w, x)
    \/ Tick

ExpirySpec == Init /\ [][ExpiryNext]_vars

\* A request carrying session_id to process w would pass require_auth.
Passes(w, session_id) == require_auth(sessions[w], session_file, session_id).ok

\* C28: after change_password or remove_user for a user, no session created
\* for the user before the call passes require_auth, in any process.
C28_PasswordChangeEndsSessions ==
    \A x \in stale, w \in Workers : ~Passes(w, x)

\* C29: after invalidate_session(s) has returned, validate_session(s) returns
\* None and a request carrying s does not pass require_auth, in any process.
C29_LogoutIsFinal ==
    \A x \in voided, w \in Workers :
        /\ ~validate_session(sessions[w], session_file, x).ok
        /\ ~Passes(w, x)

\* C30: a session that validate_session has found expired is in no session
\* file and validates in no process afterwards.
C30_ExpiryIsFinal ==
    \A x \in lapsed :
        /\ x \notin DOMAIN session_file.table
        /\ \A w \in Workers : ~validate_session(sessions[w], session_file, x).ok

====
